---- MODULE Spec2Model ----
(***************************************************************************)
(* Speech-To-Text backend: the Express route handlers of the server file   *)
(* (src/unnamed/part_000) as a state machine.                              *)
(*                                                                         *)
(* Each handler is an async function; between two awaits its code runs     *)
(* without interleaving (one Node event loop).  A request therefore moves  *)
(* in steps, one per awaited external call: the step that receives the     *)
(* call's outcome runs the synchronous code up to the next await or to the *)
(* response.  The external services (relational store, blob storage,       *)
(* transcription provider, bcrypt) answer each call with a result, with a  *)
(* returned error object {error: {message}} or by rejecting (a throw).     *)
(*                                                                         *)
(* An optional JavaScript value (undefined / null versus present) is a     *)
(* sequence of length 0 or 1; a JavaScript array is a sequence.            *)
(***************************************************************************)
EXTENDS Integers, Sequences, FiniteSets, TLC

\* ---------------------------------------------------------------- bounds
MaxReqs == 2          \* requests in flight during one run
MaxMixed == 1         \* requests of one run over all six routes (Spec, FairSpec)
MaxNow == 1           \* distinct clock readings

\* ------------------------------------------------------ program constants
BcryptCost == 10      \* bcrypt.hash(password, 10)
UuidLen == 36         \* /^[0-9a-fA-F-]{36}$/

\* ---------------------------------------------------------- input values
Reqs == 1..MaxReqs
Mixed == {r \in Reqs : r <= MaxMixed}
Emails == {"a@x.io", "b@x.io"}
Undefined == "<undefined>"            \* a body field that was not sent
SignupPasswords == {"pw1", Undefined}
LoginPasswords == {"pw1", "pw2", Undefined}
Names == {"Ann"}
Msgs == {"E1", "E2"}                  \* error messages of the external services
FileNames == {"a.wav"}                \* multer never yields a file with an empty name
MimeTypes == {"audio/wav"}
Files == {<<>>} \cup {<<[originalname |-> n, mimetype |-> m]>> : n \in FileNames, m \in MimeTypes}
Times == 1..MaxNow                    \* values of Date.now()

\* Strings whose characters matter are sequences of one-character strings.
Rep(c, n) == [i \in 1..n |-> c]

SpecUuid ==                           \* "123e4567-e89b-12d3-a456-426614174000"
    <<"1","2","3","e","4","5","6","7","-","e","8","9","b","-","1","2","d","3","-",
      "a","4","5","6","-","4","2","6","6","1","4","1","7","4","0","0","0">>

UpperUuid == Rep("A", 8) \o <<"-">> \o Rep("F", 27)

ValidUserIds == {SpecUuid, UpperUuid}

MalformedUserIds ==
    { <<"a", "b", "c">>,
      SubSeq(SpecUuid, 1, UuidLen - 1),
      SpecUuid \o <<"0">>,
      <<"g">> \o SubSeq(SpecUuid, 2, UuidLen),
      SubSeq(SpecUuid, 1, UuidLen - 1) \o <<"G">>,
      SubSeq(SpecUuid, 1, 8) \o <<"_">> \o SubSeq(SpecUuid, 10, UuidLen),
      SpecUuid \o SpecUuid }

\* req.body.userId: not sent, sent empty, or a string
UserIdInputs == {<<>>, << <<>> >>} \cup {<<u>> : u \in ValidUserIds \cup MalformedUserIds}

VARIABLES
    users,           \* rows of the store's users table, in insertion order
    transcriptions,  \* rows of the store's transcriptions table, in insertion order
    blobs,           \* paths of the objects in the storage bucket
    pc,              \* per request: "idle", the call it awaits, or "done"
    in,              \* per request: route and req.body / req.file / req.params
    loc,             \* per request: the handler's local variables that are read later
    resp,            \* per request: the responses sent through res, in order
    calls,           \* per request: the external calls issued, in order (history)
    fails            \* per request: the external calls that failed (history)

vars == <<users, transcriptions, blobs, pc, in, loc, resp, calls, fails>>

\* ------------------------------------------------------------- responses
Resp(status, body) == [status |-> status, body |-> body]

Err(text) == [error |-> text]

ErrDetails(text, details) == [error |-> text, details |-> details]

\* ------------------------------------------------- external call results
Ok(data) == [data |-> <<data>>, error |-> <<>>, thrown |-> <<>>]

Returned(m) == [data |-> <<>>, error |-> <<m>>, thrown |-> <<>>]

Thrown(m) == [data |-> <<>>, error |-> <<>>, thrown |-> <<m>>]

\* The ways a call to an external service fails: an error object in the
\* result, or a rejected promise.
Failures == {Returned(m) : m \in Msgs} \cup {Thrown(m) : m \in Msgs}

FailureMsg(res) == IF Len(res.error) > 0 THEN res.error[1] ELSE res.thrown[1]

Failed(res) == Len(res.error) > 0 \/ Len(res.thrown) > 0

\* ------------------------------------------------------ credential store
\* PostgREST .single(): the one row when the query yields exactly one row,
\* otherwise no data and an error object (which the handlers never read).
NoSingleRowMsg == "JSON object requested, multiple (or no) rows returned"

SingleRow(rows) == IF Len(rows) = 1 THEN Ok(rows[1]) ELSE Returned(NoSingleRowMsg)

\* supabase.from('users').select('*').eq('email', email).single()
FindUserByEmail(us, email) == SingleRow(SelectSeq(us, LAMBDA u : u.email = email))

FindUserResults(us, email) == {FindUserByEmail(us, email)} \cup Failures

\* A lookup that found no single row is an answer of the store, not a failure.
StoreFailed(res) == Failed(res) /\ res # Returned(NoSingleRowMsg)

\* supabase.from('users').insert([{email, password, name}]).single(); the
\* users table has a unique constraint on email and generates the id.
DuplicateMsg == "duplicate key value violates unique constraint"

NewUserRow(us, email, hashedPassword, name) ==
    [id |-> Len(us) + 1, email |-> email, password |-> hashedPassword, name |-> name]

\* Mutation: .upsert() in place of .insert(): a row with the email is overwritten.
InsertUser_Upsert(us, email, hashedPassword, name) ==
    IF \E i \in 1..Len(us) : us[i].email = email
    THEN LET i == CHOOSE k \in 1..Len(us) : us[k].email = email
             row == [id |-> us[i].id, email |-> email, password |-> hashedPassword,
                     name |-> name]
         IN  [res |-> Ok(row), users |-> [us EXCEPT ![i] = row]]
    ELSE [res |-> Ok(NewUserRow(us, email, hashedPassword, name)),
          users |-> Append(us, NewUserRow(us, email, hashedPassword, name))]

\* The call's result and the table after it.
InsertUser(us, email, hashedPassword, name) ==
    IF \E i \in 1..Len(us) : us[i].email = email
    THEN [res |-> Returned(DuplicateMsg), users |-> us]
    ELSE [res |-> Ok(NewUserRow(us, email, hashedPassword, name)),
          users |-> Append(us, NewUserRow(us, email, hashedPassword, name))]

InsertUserResults(us, email, hashedPassword, name) ==
    {InsertUser(us, email, hashedPassword, name)}
        \cup {[res |-> f, users |-> us] : f \in Failures}

\* ------------------------------------------------------- password hasher
\* bcryptjs: a digest carries the cost and verifies exactly the plaintext it
\* was made from; a non-string argument rejects.  The random salt is left
\* out: no handler reads it.
BcryptHash(password) ==
    IF password = Undefined
    THEN Thrown("Illegal arguments: undefined, number")
    ELSE Ok([cost |-> BcryptCost, pw |-> password])

BcryptCompare(password, digest) ==
    IF password = Undefined
    THEN Thrown("Illegal arguments: undefined, string")
    ELSE Ok(digest.pw = password)

\* ------------------------------------------------------------ POST /signup
\* The synchronous code that runs when an awaited call returns: the
\* responses it sends and the call it awaits next ("done": the handler ends).
Step(send, next) == [send |-> send, next |-> next]

SignupCatch(m) == Resp(500, ErrDetails("Error during signup", m))

\* Mutation: the 400 is sent without return, and the handler goes on.
SignupAfterLookup_NoReturn(res) ==
    IF Len(res.thrown) > 0 THEN Step(<<SignupCatch(res.thrown[1])>>, "done")
    ELSE IF Len(res.data) > 0 THEN Step(<<Resp(400, Err("User already exists"))>>, "s_hash")
    ELSE Step(<<>>, "s_hash")

\* Mutation: the existence check is dropped.
SignupAfterLookup_NoExistenceCheck(res) ==
    IF Len(res.thrown) > 0 THEN Step(<<SignupCatch(res.thrown[1])>>, "done")
    ELSE Step(<<>>, "s_hash")

SignupAfterLookup(res) ==
    IF Len(res.thrown) > 0 THEN Step(<<SignupCatch(res.thrown[1])>>, "done")
    ELSE IF Len(res.data) > 0 THEN Step(<<Resp(400, Err("User already exists"))>>, "done")
    ELSE Step(<<>>, "s_hash")

SignupAfterHash(res) ==
    IF Len(res.thrown) > 0 THEN Step(<<SignupCatch(res.thrown[1])>>, "done")
    ELSE Step(<<>>, "s_insert")

\* Mutation: insertError is not checked.
SignupAfterInsert_IgnoreInsertError(res) ==
    IF Len(res.thrown) > 0 THEN Step(<<SignupCatch(res.thrown[1])>>, "done")
    ELSE Step(<<Resp(200, [message |-> "Signup successful!", user |-> res.data])>>, "done")

SignupAfterInsert(res) ==
    IF Len(res.thrown) > 0 THEN Step(<<SignupCatch(res.thrown[1])>>, "done")
    ELSE IF Len(res.error) > 0 THEN Step(<<SignupCatch(res.error[1])>>, "done")
    ELSE Step(<<Resp(200, [message |-> "Signup successful!", user |-> res.data[1]])>>, "done")

\* ------------------------------------------------------------- POST /login
LoginCatch(m) == Resp(500, ErrDetails("Error during login", m))

InvalidCredentials == Resp(400, Err("Invalid email or password"))

\* Mutation: an unknown email gets its own answer.
LoginAfterLookup_UserNotFound(res) ==
    IF Len(res.thrown) > 0 THEN Step(<<LoginCatch(res.thrown[1])>>, "done")
    ELSE IF Len(res.data) = 0 THEN Step(<<Resp(400, Err("User not found"))>>, "done")
    ELSE Step(<<>>, "l_compare")

LoginAfterLookup(res) ==
    IF Len(res.thrown) > 0 THEN Step(<<LoginCatch(res.thrown[1])>>, "done")
    ELSE IF Len(res.data) = 0 THEN Step(<<InvalidCredentials>>, "done")
    ELSE Step(<<>>, "l_compare")

LoginAfterCompare(res, user) ==
    IF Len(res.thrown) > 0 THEN Step(<<LoginCatch(res.thrown[1])>>, "done")
    ELSE IF ~res.data[1] THEN Step(<<InvalidCredentials>>, "done")
    ELSE Step(<<Resp(200, [success |-> TRUE, message |-> "Login successful!",
                           user |-> [id |-> user.id, email |-> user.email,
                                     name |-> user.name]])>>, "done")

\* ---------------------------------------------------------- blob storage
\* supabase.storage.from(bucket).upload(path, buffer, {contentType}): no
\* upsert, so a path that exists is refused.
ExistsMsg == "The resource already exists"

BlobPath(now, originalname) == <<"audio", now, originalname>>

UploadBlob(bs, path) == IF path \in bs THEN Returned(ExistsMsg) ELSE Ok([path |-> path])

UploadResults(bs, path) == {UploadBlob(bs, path)} \cup Failures

GetPublicUrl(path) == <<"public", path>>

\* ------------------------------------------------------------ POST /upload
UploadBegin(file) ==
    IF Len(file) = 0 THEN Step(<<Resp(400, Err("No file uploaded"))>>, "done")
    ELSE Step(<<>>, "u_upload")

\* Mutation: the storage error's message is replaced by a fixed text.
UploadAfterStore_FixedDetails(res) ==
    IF Len(res.thrown) > 0
    THEN Step(<<Resp(500, ErrDetails("Error uploading audio", res.thrown[1]))>>, "done")
    ELSE IF Len(res.error) > 0
    THEN Step(<<Resp(500, ErrDetails("Failed to upload to Supabase", "Upload failed."))>>, "done")
    ELSE Step(<<Resp(200, [message |-> "Audio uploaded successfully!",
                           fileURL |-> GetPublicUrl(res.data[1].path)])>>, "done")

UploadAfterStore(res) ==
    IF Len(res.thrown) > 0
    THEN Step(<<Resp(500, ErrDetails("Error uploading audio", res.thrown[1]))>>, "done")
    ELSE IF Len(res.error) > 0
    THEN Step(<<Resp(500, ErrDetails("Failed to upload to Supabase", res.error[1]))>>, "done")
    ELSE Step(<<Resp(200, [message |-> "Audio uploaded successfully!",
                           fileURL |-> GetPublicUrl(res.data[1].path)])>>, "done")

\* ----------------------------------------------- transcription provider
\* The shapes of a Deepgram result: every level of
\* result.results.channels[0].alternatives[0].transcript present or not.
Alternative(t) == [transcript |-> t]

Channel(alts) == [alternatives |-> alts]

Result(chs) == <<[results |-> <<[channels |-> chs]>>]>>

Spoken == "hello world"

ProviderResults ==
    { <<>>,                                                  \* result null
      <<[results |-> <<>>]>>,                                \* no results
      Result(<<>>),                                          \* no channels
      Result(<< <<>> >>),                                    \* channels: []
      Result(<< <<Channel(<<>>)>> >>),                       \* no alternatives
      Result(<< <<Channel(<< <<>> >>)>> >>),                 \* alternatives: []
      Result(<< <<Channel(<< <<Alternative(<<>>)>> >>)>> >>),        \* no transcript
      Result(<< <<Channel(<< <<Alternative(<<"">>)>> >>)>> >>),      \* transcript ""
      Result(<< <<Channel(<< <<Alternative(<<Spoken>>)>> >>)>> >>) }

TranscribeFileResults == {Ok(res) : res \in ProviderResults} \cup Failures

\* --------------------------------------------------------- POST /transcribe
\* /^[0-9a-fA-F-]{36}$/
UuidClass ==
    {"0", "1", "2", "3", "4", "5", "6", "7", "8", "9", "a", "b", "c", "d", "e", "f",
     "A", "B", "C", "D", "E", "F", "-"}

\* The position after n characters of the class matched from position i, or
\* 0 when they do not match.
RECURSIVE MatchClass(_, _, _)
MatchClass(s, i, n) ==
    IF n = 0 THEN i
    ELSE IF i > Len(s) THEN 0
    ELSE IF s[i] \notin UuidClass THEN 0
    ELSE MatchClass(s, i + 1, n - 1)

\* Mutation: the pattern lacks its closing anchor, /^[0-9a-fA-F-]{36}/.
UuidRegexTest_Unanchored(s) == MatchClass(s, 1, UuidLen) # 0

UuidRegexTest(s) == MatchClass(s, 1, UuidLen) = Len(s) + 1

Falsy(opt) == Len(opt) = 0 \/ Len(opt[1]) = 0

TranscribeBegin(file, userId) ==
    IF Len(file) = 0 THEN Step(<<Resp(400, Err("No file uploaded"))>>, "done")
    ELSE IF Falsy(userId) THEN Step(<<Resp(400, Err("User ID is required"))>>, "done")
    ELSE IF ~UuidRegexTest(userId[1])
    THEN Step(<<Resp(400, Err("Invalid UUID format for userId"))>>, "done")
    ELSE Step(<<>>, "t_provider")

NoTranscript == "No transcript available"

IndexTypeError == "Cannot read properties of undefined (reading '0')"

\* result?.results?.channels[0]?.alternatives[0]?.transcript || NoTranscript:
\* ?. guards result, results, channels[0] and alternatives[0]; the two [0]
\* index whatever channels and alternatives are.
ExtractTranscript(result) ==
    IF Len(result) = 0 THEN Ok(NoTranscript)
    ELSE IF Len(result[1].results) = 0 THEN Ok(NoTranscript)
    ELSE LET channels == result[1].results[1].channels
         IN  IF Len(channels) = 0 THEN Thrown(IndexTypeError)
             ELSE IF Len(channels[1]) = 0 THEN Ok(NoTranscript)
             ELSE LET alternatives == channels[1][1].alternatives
                  IN  IF Len(alternatives) = 0 THEN Thrown(IndexTypeError)
                      ELSE IF Len(alternatives[1]) = 0 THEN Ok(NoTranscript)
                      ELSE IF Falsy(alternatives[1][1].transcript) THEN Ok(NoTranscript)
                      ELSE Ok(alternatives[1][1].transcript[1])

TranscribeCatch(m) == Resp(500, ErrDetails("Error transcribing audio", m))

TranscribeAfterProvider(res) ==
    IF Len(res.thrown) > 0 THEN Step(<<TranscribeCatch(res.thrown[1])>>, "done")
    ELSE IF Len(res.error) > 0
    THEN Step(<<TranscribeCatch("Failed to transcribe audio.")>>, "done")
    ELSE IF Len(ExtractTranscript(res.data[1]).thrown) > 0
    THEN Step(<<TranscribeCatch(ExtractTranscript(res.data[1]).thrown[1])>>, "done")
    ELSE Step(<<>>, "t_save")

FileUrl(originalname) == IF originalname = "" THEN "unknown_filename" ELSE originalname

TranscriptionRow(userId, transcript, originalname) ==
    [user_id |-> userId, transcript |-> transcript, file_url |-> FileUrl(originalname)]

\* supabase.from('transcriptions').insert([row]).single()
InsertTranscriptionResults(row) == {Ok(row)} \cup Failures

\* Mutation: saveError is not checked.
TranscribeAfterSave_IgnoreSaveError(res, transcript) ==
    IF Len(res.thrown) > 0 THEN Step(<<TranscribeCatch(res.thrown[1])>>, "done")
    ELSE Step(<<Resp(200, [message |-> "Transcription successful!",
                           transcript |-> transcript,
                           savedTranscription |-> res.data])>>, "done")

TranscribeAfterSave(res, transcript) ==
    IF Len(res.thrown) > 0 THEN Step(<<TranscribeCatch(res.thrown[1])>>, "done")
    ELSE IF Len(res.error) > 0
    THEN Step(<<TranscribeCatch("Failed to save transcription.")>>, "done")
    ELSE Step(<<Resp(200, [message |-> "Transcription successful!",
                           transcript |-> transcript,
                           savedTranscription |-> res.data[1]])>>, "done")

\* ------------------------------------------------ GET /transcriptions/:userId
ListBegin(userId) ==
    IF Len(userId) = 0 THEN Step(<<Resp(400, Err("User ID is required"))>>, "done")
    ELSE Step(<<>>, "g_list")

Project(t) == [transcript |-> t.transcript, file_url |-> t.file_url]

RECURSIVE ListTranscriptions(_, _)
\* supabase.from('transcriptions').select("transcript, file_url").eq("user_id", userId)
ListTranscriptions(ts, userId) ==
    IF Len(ts) = 0 THEN <<>>
    ELSE IF Head(ts).user_id = userId
    THEN <<Project(Head(ts))>> \o ListTranscriptions(Tail(ts), userId)
    ELSE ListTranscriptions(Tail(ts), userId)

ListResults(ts, userId) == {Ok(ListTranscriptions(ts, userId))} \cup Failures

ListAfterQuery(res) ==
    IF Len(res.thrown) > 0
    THEN Step(<<Resp(500, ErrDetails("Internal server error", res.thrown[1]))>>, "done")
    ELSE IF Len(res.error) > 0
    THEN Step(<<Resp(500, ErrDetails("Database query failed", res.error[1]))>>, "done")
    ELSE Step(<<Resp(200, [success |-> TRUE, transcriptions |-> res.data[1]])>>, "done")

\* -------------------------------------------------------------------- GET /
Live == Resp(200, "Server is live and running on port 5500")

\* ------------------------------------------------------- request plumbing
NoLoc == [none |-> TRUE]

\* A request arrives on slot r: slots are taken in order.
Arrives(r) == pc[r] = "idle" /\ (\A q \in Reqs : q < r => pc[q] # "idle")

\* The handler's first synchronous segment ran on input i.
Begin(r, i, step) ==
    /\ in' = [in EXCEPT ![r] = i]
    /\ pc' = [pc EXCEPT ![r] = step.next]
    /\ resp' = [resp EXCEPT ![r] = @ \o step.send]
    /\ calls' = [calls EXCEPT ![r] = IF step.next = "done" THEN @ ELSE Append(@, step.next)]
    /\ loc' = [loc EXCEPT ![r] = NoLoc]
    /\ UNCHANGED fails

\* The call named pc[r] returned res; the handler ran up to its next await.
Resume(r, res, failed, step, newloc) ==
    /\ pc' = [pc EXCEPT ![r] = step.next]
    /\ resp' = [resp EXCEPT ![r] = @ \o step.send]
    /\ calls' = [calls EXCEPT ![r] = IF step.next = "done" THEN @ ELSE Append(@, step.next)]
    /\ loc' = [loc EXCEPT ![r] = newloc]
    /\ fails' = [fails EXCEPT ![r] =
                    IF failed
                    THEN @ \cup {[call |-> pc[r], msg |-> FailureMsg(res),
                                  thrown |-> Len(res.thrown) > 0]}
                    ELSE @]
    /\ UNCHANGED in

SignupStart(r) ==
    /\ Arrives(r)
    /\ \E e \in Emails, p \in SignupPasswords, n \in Names :
          Begin(r, [route |-> "signup", email |-> e, password |-> p, name |-> n],
                Step(<<>>, "s_lookup"))
    /\ UNCHANGED <<users, transcriptions, blobs>>

SignupLookupReturn(r) ==
    /\ pc[r] = "s_lookup"
    /\ \E res \in FindUserResults(users, in[r].email) :
          Resume(r, res, StoreFailed(res), SignupAfterLookup(res), NoLoc)
    /\ UNCHANGED <<users, transcriptions, blobs>>

SignupHashReturn(r) ==
    /\ pc[r] = "s_hash"
    /\ LET res == BcryptHash(in[r].password)
       IN  Resume(r, res, Failed(res), SignupAfterHash(res),
                  IF Len(res.data) > 0 THEN [hashedPassword |-> res.data[1]] ELSE NoLoc)
    /\ UNCHANGED <<users, transcriptions, blobs>>

SignupInsertReturn(r) ==
    /\ pc[r] = "s_insert"
    /\ \E out \in InsertUserResults(users, in[r].email, loc[r].hashedPassword, in[r].name) :
          /\ users' = out.users
          /\ Resume(r, out.res, Failed(out.res), SignupAfterInsert(out.res), loc[r])
    /\ UNCHANGED <<transcriptions, blobs>>

LoginStart(r) ==
    /\ Arrives(r)
    /\ \E e \in Emails, p \in LoginPasswords :
          Begin(r, [route |-> "login", email |-> e, password |-> p],
                Step(<<>>, "l_lookup"))
    /\ UNCHANGED <<users, transcriptions, blobs>>

LoginLookupReturn(r) ==
    /\ pc[r] = "l_lookup"
    /\ \E res \in FindUserResults(users, in[r].email) :
          Resume(r, res, StoreFailed(res), LoginAfterLookup(res),
                 IF Len(res.data) > 0 THEN [user |-> res.data[1]] ELSE NoLoc)
    /\ UNCHANGED <<users, transcriptions, blobs>>

LoginCompareReturn(r) ==
    /\ pc[r] = "l_compare"
    /\ LET res == BcryptCompare(in[r].password, loc[r].user.password)
       IN  Resume(r, res, Failed(res), LoginAfterCompare(res, loc[r].user), loc[r])
    /\ UNCHANGED <<users, transcriptions, blobs>>

UploadStart(r) ==
    /\ Arrives(r)
    /\ \E f \in Files, t \in Times :
          Begin(r, [route |-> "upload", file |-> f, now |-> t], UploadBegin(f))
    /\ UNCHANGED <<users, transcriptions, blobs>>

UploadReturn(r) ==
    /\ pc[r] = "u_upload"
    /\ \E res \in UploadResults(blobs, BlobPath(in[r].now, in[r].file[1].originalname)) :
          /\ blobs' = IF Len(res.data) > 0 THEN blobs \cup {res.data[1].path} ELSE blobs
          /\ Resume(r, res, Failed(res), UploadAfterStore(res), NoLoc)
    /\ UNCHANGED <<users, transcriptions>>

TranscribeStart(r) ==
    /\ Arrives(r)
    /\ \E f \in Files, u \in UserIdInputs :
          Begin(r, [route |-> "transcribe", file |-> f, userId |-> u], TranscribeBegin(f, u))
    /\ UNCHANGED <<users, transcriptions, blobs>>

TranscribeProviderReturn(r) ==
    /\ pc[r] = "t_provider"
    /\ \E res \in TranscribeFileResults :
          Resume(r, res, Failed(res), TranscribeAfterProvider(res),
                 IF Failed(res) THEN NoLoc
                 ELSE [result |-> res.data[1], transcript |-> ExtractTranscript(res.data[1])])
    /\ UNCHANGED <<users, transcriptions, blobs>>

TranscribeSaveReturn(r) ==
    /\ pc[r] = "t_save"
    /\ \E res \in InsertTranscriptionResults(
                     TranscriptionRow(in[r].userId[1], loc[r].transcript.data[1],
                                      in[r].file[1].originalname)) :
          /\ transcriptions' = IF Len(res.data) > 0 THEN Append(transcriptions, res.data[1])
                               ELSE transcriptions
          /\ Resume(r, res, Failed(res), TranscribeAfterSave(res, loc[r].transcript.data[1]),
                    [transcript |-> loc[r].transcript])    \* result is not read again
    /\ UNCHANGED <<users, blobs>>

ListStart(r) ==
    /\ Arrives(r)
    /\ \E u \in ValidUserIds :
          Begin(r, [route |-> "list", userId |-> u], ListBegin(u))
    /\ UNCHANGED <<users, transcriptions, blobs>>

ListReturn(r) ==
    /\ pc[r] = "g_list"
    /\ \E res \in ListResults(transcriptions, in[r].userId) :
          Resume(r, res, Failed(res), ListAfterQuery(res), NoLoc)
    /\ UNCHANGED <<users, transcriptions, blobs>>

Root(r) ==
    /\ Arrives(r)
    /\ Begin(r, [route |-> "root"], Step(<<Live>>, "done"))
    /\ UNCHANGED <<users, transcriptions, blobs>>

Init ==
    /\ users = <<>>
    /\ transcriptions = <<>>
    /\ blobs = {}
    /\ pc = [r \in Reqs |-> "idle"]
    /\ in = [r \in Reqs |-> [route |-> "none"]]
    /\ loc = [r \in Reqs |-> NoLoc]
    /\ resp = [r \in Reqs |-> <<>>]
    /\ calls = [r \in Reqs |-> <<>>]
    /\ fails = [r \in Reqs |-> {}]

\* The store outlives the server: a run may start with a user registered and
\* a transcription saved by an earlier run.
InitServed ==
    /\ users \in {<<>>, <<NewUserRow(<<>>, "a@x.io", BcryptHash("pw2").data[1], "Ann")>>}
    /\ transcriptions \in {<<>>, <<TranscriptionRow(SpecUuid, Spoken, "a.wav")>>}
    /\ blobs = {}
    /\ pc = [r \in Reqs |-> "idle"]
    /\ in = [r \in Reqs |-> [route |-> "none"]]
    /\ loc = [r \in Reqs |-> NoLoc]
    /\ resp = [r \in Reqs |-> <<>>]
    /\ calls = [r \in Reqs |-> <<>>]
    /\ fails = [r \in Reqs |-> {}]

AuthNext ==
    \E r \in Reqs :
        \/ SignupStart(r)
        \/ SignupLookupReturn(r)
        \/ SignupHashReturn(r)
        \/ SignupInsertReturn(r)
        \/ LoginStart(r)
        \/ LoginLookupReturn(r)
        \/ LoginCompareReturn(r)

AuthSpec == Init /\ [][AuthNext]_vars

TranscribeNext ==
    \E r \in Reqs :
        \/ TranscribeStart(r)
        \/ TranscribeProviderReturn(r)
        \/ TranscribeSaveReturn(r)

TranscribeSpec == Init /\ [][TranscribeNext]_vars

Next ==
    \E r \in Mixed :
        \/ TranscribeStart(r)
        \/ TranscribeProviderReturn(r)
        \/ TranscribeSaveReturn(r)
        \/ ListStart(r)
        \/ ListReturn(r)
        \/ UploadStart(r)
        \/ UploadReturn(r)
        \/ SignupStart(r)
        \/ SignupLookupReturn(r)
        \/ SignupHashReturn(r)
        \/ SignupInsertReturn(r)
        \/ LoginStart(r)
        \/ LoginLookupReturn(r)
        \/ LoginCompareReturn(r)
        \/ Root(r)

Spec == InitServed /\ [][Next]_vars

\* An awaited call eventually returns or fails.
Returns(r) ==
    \/ SignupLookupReturn(r)
    \/ SignupHashReturn(r)
    \/ SignupInsertReturn(r)
    \/ LoginLookupReturn(r)
    \/ LoginCompareReturn(r)
    \/ UploadReturn(r)
    \/ TranscribeProviderReturn(r)
    \/ TranscribeSaveReturn(r)
    \/ ListReturn(r)

FairSpec == Spec /\ \A r \in Mixed : WF_vars(Returns(r))

\* ======================================================== claims: signup/login
Issued(r, call) == \E i \in 1..Len(calls[r]) : calls[r][i] = call

Answered(r, status) == Len(resp[r]) > 0 /\ resp[r][1].status = status

SignedUp(q, e) == in[q].route = "signup" /\ in[q].email = e /\ Answered(q, 200)

UserExistsAnswer == <<[status |-> 400, body |-> [error |-> "User already exists"]]>>

\* C1: once a signup for email E has been answered with success, a signup for
\* E whose lookup then returns without a store failure is answered
\* 400 'User already exists', ends there (no insert is issued) and leaves
\* the users table as it was.
C1_DuplicateSignupRejected ==
    [][\A r \in Reqs :
          (/\ pc[r] = "s_lookup"
           /\ pc'[r] # "s_lookup"
           /\ fails'[r] = {}
           /\ \E q \in Reqs : SignedUp(q, in[r].email))
          => (pc'[r] = "done" /\ resp'[r] = UserExistsAnswer /\ users' = users)]_vars

C1_Witness ==
    \E q, r \in Reqs :
        /\ q # r
        /\ SignedUp(q, "a@x.io")
        /\ in[r].route = "signup" /\ in[r].email = "a@x.io"
        /\ pc[r] = "done" /\ fails[r] = {}
        /\ resp[r] = UserExistsAnswer
        /\ ~Issued(r, "s_insert")

InvalidCredentialsAnswer == <<[status |-> 400, body |-> [error |-> "Invalid email or password"]]>>

\* The lookup of login r did not fail and found no user.
UnknownEmailLogin(r) ==
    /\ in[r].route = "login" /\ pc[r] = "done"
    /\ fails[r] = {}
    /\ "user" \notin DOMAIN loc[r]

\* Login r found the user and sent a password the stored digest was not made from.
WrongPasswordLogin(r) ==
    /\ in[r].route = "login" /\ pc[r] = "done"
    /\ "user" \in DOMAIN loc[r]
    /\ in[r].password # Undefined
    /\ loc[r].user.password.pw # in[r].password

\* C2: a login with an email that has no user record and a login with a
\* registered email and a password that does not verify are both answered
\* with the one response 400 {error: 'Invalid email or password'}.
C2_SameAnswer ==
    \A r \in Reqs :
        (UnknownEmailLogin(r) \/ WrongPasswordLogin(r)) => resp[r] = InvalidCredentialsAnswer

C2_Witness ==
    \E q, r \in Reqs :
        /\ SignedUp(q, "a@x.io")
        /\ WrongPasswordLogin(r)
        /\ in[r].email = "a@x.io" /\ in[r].password = "pw2"
        /\ resp[r] = InvalidCredentialsAnswer

\* C3: with the store refusing a second row for an email, the users table
\* never holds two rows with one email, at most one signup per email is
\* answered with success, and every signup is answered 200, 400 or 500.
C3_OneWinner ==
    /\ \A i, j \in 1..Len(users) : i # j => users[i].email # users[j].email
    /\ \A e \in Emails : Cardinality({r \in Reqs : SignedUp(r, e)}) <= 1
    /\ \A r \in Reqs :
          (in[r].route = "signup" /\ pc[r] = "done")
          => (Len(resp[r]) = 1 /\ resp[r][1].status \in {200, 400, 500})

\* Two signups for one email both passed the existence check with no lookup
\* failure; one won, the other's insert was refused by the store.
C3_Witness ==
    \E q, r \in Reqs :
        /\ q # r
        /\ SignedUp(q, "a@x.io")
        /\ in[r].route = "signup" /\ in[r].email = "a@x.io" /\ pc[r] = "done"
        /\ fails[r] = {[call |-> "s_insert", msg |-> DuplicateMsg, thrown |-> FALSE]}
        /\ Answered(r, 500)
        /\ Len(users) = 1

CredentialStoreCalls == {"s_lookup", "s_insert", "l_lookup"}

\* C4: a signup or login one of whose credential-store calls failed is
\* answered 500, and a signup whose lookup failed never issues the insert.
C4_StoreFailureAnswered500 ==
    \A r \in Reqs :
        /\ (/\ pc[r] = "done"
            /\ \E f \in fails[r] : f.call \in CredentialStoreCalls)
           => (Len(resp[r]) = 1 /\ resp[r][1].status = 500)
        /\ (\E f \in fails[r] : f.call = "s_lookup") => ~Issued(r, "s_insert")

\* ========================================================= claims: transcribe
HexDigits ==
    {"0", "1", "2", "3", "4", "5", "6", "7", "8", "9"}
        \cup {"a", "b", "c", "d", "e", "f"} \cup {"A", "B", "C", "D", "E", "F"}

\* A userId that was sent and is exactly 36 hex digits and hyphens.
WellFormedUserId(u) ==
    /\ Len(u) = 1
    /\ Len(u[1]) = 36
    /\ \A i \in 1..36 : u[1][i] \in HexDigits \cup {"-"}

Rejected(r) ==
    /\ in[r].route = "transcribe"
    /\ Len(in[r].file) = 1
    /\ ~WellFormedUserId(in[r].userId)

\* C5: a transcribe request with a file whose userId is missing or is not
\* exactly 36 hex digits and hyphens is answered 400 at once, with no call
\* issued (neither the provider nor the insert), and no record is inserted;
\* with a userId of exactly 36 hex/hyphen characters the provider call is issued.
C5_UserIdFormat ==
    /\ \A r \in Reqs :
          (in[r].route = "transcribe" /\ Len(in[r].file) = 1)
          => IF WellFormedUserId(in[r].userId)
             THEN Issued(r, "t_provider")
             ELSE /\ pc[r] = "done"
                  /\ Len(resp[r]) = 1 /\ resp[r][1].status = 400
                  /\ calls[r] = <<>>
    /\ (\A r \in Reqs : pc[r] = "idle" \/ Rejected(r)) => transcriptions = <<>>

\* A 37-character userId was rejected and the all-capitals one passed.
C5_Witness ==
    \E q, r \in Reqs :
        /\ Rejected(q) /\ in[q].userId = <<SpecUuid \o <<"0">>>> /\ Answered(q, 400)
        /\ in[r].route = "transcribe" /\ Len(in[r].file) = 1
        /\ in[r].userId = <<UpperUuid>> /\ Issued(r, "t_provider")

\* Every level down to a non-empty transcript is there.
HasTranscript(result) ==
    /\ Len(result) = 1
    /\ Len(result[1].results) = 1
    /\ LET channels == result[1].results[1].channels
       IN  /\ Len(channels) = 1
           /\ Len(channels[1]) >= 1
           /\ LET alternatives == channels[1][1].alternatives
              IN  /\ Len(alternatives) = 1
                  /\ Len(alternatives[1]) >= 1
                  /\ Len(alternatives[1][1].transcript) = 1
                  /\ alternatives[1][1].transcript[1] # ""

\* C6: when the provider reports no error and its response holds no
\* transcript, the handler does not fail: it goes on to save the transcript
\* "No transcript available"; and once that save has returned without
\* failing, the request is answered 200 with that transcript and the record
\* holding it is stored.
C6_FallbackTranscript ==
    \A r \in Reqs :
        /\ (/\ in[r].route = "transcribe"
            /\ "result" \in DOMAIN loc[r]
            /\ ~HasTranscript(loc[r].result))
           => (pc[r] = "t_save" /\ loc[r].transcript = Ok("No transcript available"))
        /\ (/\ in[r].route = "transcribe"
            /\ pc[r] = "done"
            /\ "transcript" \in DOMAIN loc[r]
            /\ loc[r].transcript = Ok("No transcript available")
            /\ ~\E f \in fails[r] : f.call = "t_save")
           => /\ Answered(r, 200)
              /\ resp[r][1].body.transcript = "No transcript available"
              /\ \E i \in 1..Len(transcriptions) :
                    /\ transcriptions[i].user_id = in[r].userId[1]
                    /\ transcriptions[i].transcript = "No transcript available"

Transcribed(r) == in[r].route = "transcribe" /\ Answered(r, 200)

\* The record the claim says a successful request has stored.
ExpectedRow(r) ==
    [user_id |-> in[r].userId[1],
     transcript |-> resp[r][1].body.transcript,
     file_url |-> in[r].file[1].originalname]

Stored(row) == Cardinality({i \in 1..Len(transcriptions) : transcriptions[i] = row})

OneRecordPerSuccess ==
    /\ Len(transcriptions) = Cardinality({r \in Reqs : Transcribed(r)})
    /\ \A r \in Reqs :
          Transcribed(r)
          => Stored(ExpectedRow(r))
               = Cardinality({q \in Reqs : Transcribed(q) /\ ExpectedRow(q) = ExpectedRow(r)})

RecordsKept ==
    \A i \in 1..Len(transcriptions) :
        i <= Len(transcriptions') /\ transcriptions'[i] = transcriptions[i]

\* C8: the stored transcription records are exactly one record
\* {user_id, transcript as returned, file_url = original filename} per
\* transcribe request answered 200 (so a request answered 400 or 500 stored
\* none), and no step changes or removes a stored record.
C8_OneRecordPerSuccess == []OneRecordPerSuccess /\ [][RecordsKept]_vars

\* One request was answered 200 with its record stored, another 500 with none.
C8_Witness ==
    \E q, r \in Reqs :
        /\ Transcribed(q)
        /\ transcriptions = <<ExpectedRow(q)>>
        /\ in[r].route = "transcribe" /\ pc[r] = "done" /\ Answered(r, 500)
        /\ \E f \in fails[r] : f.call = "t_save"

\* ========================================================= claims: all routes
DownstreamCalls ==
    {"s_lookup", "s_insert", "l_lookup", "u_upload", "t_provider", "t_save", "g_list"}

Details(r, m) == Len(resp[r]) = 1 /\ resp[r][1].status = 500 /\ resp[r][1].body.details = m

\* C7 as stated: on every route, a downstream call (store, blob storage,
\* provider) that failed with message M is answered 500 with details = M.
C7_VerbatimDetails ==
    \A r \in Reqs :
        pc[r] = "done"
        => \A f \in fails[r] : f.call \in DownstreamCalls => Details(r, f.msg)

\* C7 as amended: a downstream call that rejects with message M is answered
\* 500 with details = M on every route, and so is an error M returned to
\* /upload, to GET /transcriptions/:userId and to the insert of /signup; an
\* error returned to /transcribe is answered 500 with the fixed details
\* "Failed to transcribe audio." (provider) or "Failed to save
\* transcription." (insert) in place of M; an error returned to the user
\* lookup of /signup or /login is not reported: the handler goes on as if
\* no user was found.
C7_DetailsAsCoded ==
    \A r \in Reqs :
        pc[r] = "done"
        => \A f \in fails[r] :
              f.call \in DownstreamCalls
              => IF f.thrown THEN Details(r, f.msg)
                 ELSE CASE f.call \in {"u_upload", "g_list", "s_insert"} -> Details(r, f.msg)
                        [] f.call = "t_provider" -> Details(r, "Failed to transcribe audio.")
                        [] f.call = "t_save" -> Details(r, "Failed to save transcription.")
                        [] f.call = "s_lookup" -> Issued(r, "s_hash")
                        [] f.call = "l_lookup" -> resp[r] = InvalidCredentialsAnswer

\* An upload answered with the storage error's own message, and a transcribe
\* answered with the fixed text.
C7_Witness ==
    \E r \in Reqs :
        /\ in[r].route = "upload" /\ pc[r] = "done"
        /\ fails[r] = {[call |-> "u_upload", msg |-> "E2", thrown |-> FALSE]}
        /\ Details(r, "E2")

UsersGrowByOne(r) ==
    /\ pc[r] = "s_insert" /\ pc'[r] = "done"
    /\ resp'[r][1].status = 200
    /\ Len(users') = Len(users) + 1
    /\ users'[Len(users')].email = in[r].email

UsersFrame ==
    /\ users' # users => \E r \in Reqs : UsersGrowByOne(r)
    /\ \A r \in Reqs : (pc'[r] # pc[r] /\ in'[r].route # "signup") => users' = users
    /\ \A i \in 1..Len(users) : i <= Len(users') /\ users'[i] = users[i]

\* C9: a step changes the users table only when it is the insert of a
\* signup returning with success, which adds one row; the steps of the other
\* routes leave the table as it is, and no step changes or removes a row.
C9_UsersFrame == [][UsersFrame]_vars

\* A signup added the row of b@x.io after the row the table already held.
C9_Witness ==
    \E r \in Reqs :
        /\ SignedUp(r, "b@x.io")
        /\ Len(users) = 2 /\ users[1].email = "a@x.io" /\ users[2].email = "b@x.io"
        /\ users[2] = resp[r][1].body.user

NoRepeat(seq) == \A i, j \in 1..Len(seq) : i # j => seq[i] # seq[j]

AtMostOnce ==
    \A r \in Reqs :
        /\ NoRepeat(calls[r])
        /\ Len(resp[r]) <= 1
        /\ pc[r] = "done" => Len(resp[r]) = 1

\* C10: no request issues one of its external calls twice or sends two
\* responses; a request that has ended has sent one response; and, every
\* awaited call returning or failing in the end, every request that arrived
\* ends with exactly one response sent.
C10_AnsweredOnce ==
    /\ []AtMostOnce
    /\ \A r \in Reqs : (pc[r] # "idle") ~> (pc[r] = "done" /\ Len(resp[r]) = 1)

\* A signup went through its three calls, the last one failed, and it was
\* answered once.
C10_Witness ==
    \E r \in Reqs :
        /\ pc[r] = "done"
        /\ calls[r] = <<"s_lookup", "s_hash", "s_insert">>
        /\ fails[r] # {}
        /\ Len(resp[r]) = 1 /\ resp[r][1].status = 500

====
